---- MODULE Spec2Model ----
(***************************************************************************)
(* Choreography planner for the NAO robot (main.py and                     *)
(* choreography_planner.py): a weighted best-first search over partial     *)
(* move sequences, followed by the report, the saved plan and the          *)
(* execution of the plan on the robot.                                     *)
(*                                                                         *)
(* One run of the program is a process r.  The catalog, the goal list and  *)
(* the control parameters are module-level tables of the program; here     *)
(* they are drawn in Init and never change.  Times are whole seconds.      *)
(***************************************************************************)
EXTENDS Integers, Sequences, FiniteSets, TLC

\* ---------------------------------------------------------------- bounds
MaxGoals == 2          \* longest goal list drawn for the two-move catalogs
MaxExpansions == 4     \* largest MAX_EXPANSIONS drawn
MaxSteps == 3          \* largest MAX_STEPS drawn
MaxRepeats == 2        \* largest MAX_CONSECUTIVE_REPEATS drawn
KEEP_TOP_K == 2        \* alternatives kept (the program keeps 5)

\* ------------------------------------------------------ program constants
MIN_TIME == 100
MAX_TIME == 125
GOAL_WEIGHT_MAIN == 10000
GOAL_WEIGHT_PLANNER == 1000
FILLER_WEIGHT == 100
MIN_FILLER == 5
DEFAULT_DURATION_MAIN == 5
DEFAULT_DURATION_PLANNER == 3

START == "START"
Moves == {"A", "B", "C"}
Variants == {"main", "planner"}
Runs == {1, 2}

VARIABLES
    \* the configuration tables and parameters (read-only during a run)
    variant, goals, predecessors, durations,
    MAX_EXPANSIONS, MAX_STEPS, MAX_CONSECUTIVE_REPEATS, ALLOW_POST_FILL,
    \* which runs of the program are started
    runs,
    \* per run: position in main(), locals of find_choreography, outputs
    pc, pq, counter, visited, expansions, all_solutions, best_solution,
    alternatives, saved, song, issued,
    \* per run: every state handed back by heappop, in order
    popped

config == <<variant, goals, predecessors, durations, MAX_EXPANSIONS,
            MAX_STEPS, MAX_CONSECUTIVE_REPEATS, ALLOW_POST_FILL, runs>>
search == <<pq, counter, visited, expansions, all_solutions, best_solution,
            popped>>
output == <<alternatives, saved, song, issued>>
vars == <<config, pc, search, output>>

\* ------------------------------------------------------------- utilities
Last(s) == s[Len(s)]

Range(s) == {s[i] : i \in 1..Len(s)}

SeqsUpTo(S, n) == UNION {[1..k -> S] : k \in 0..n}

\* every enumeration order of a finite set
Perms(S) == {f \in [1..Cardinality(S) -> S] : \A i, j \in 1..Cardinality(S) :
                 i # j => f[i] # f[j]}

Min(a, b) == IF a < b THEN a ELSE b

\* ------------------------------------------------------------ State class
DEFAULT_DURATION ==
    IF variant = "main" THEN DEFAULT_DURATION_MAIN ELSE DEFAULT_DURATION_PLANNER

\* a lookup that forgets the default: durations.get(move, 0)
get_move_duration_zero(move) ==
    IF move \in DOMAIN durations THEN durations[move] ELSE 0

\* durations.get(move, DEFAULT_DURATION)
get_move_duration(move) ==
    IF move \in DOMAIN durations THEN durations[move] ELSE DEFAULT_DURATION

RECURSIVE SumDurations(_)
SumDurations(s) ==
    IF s = <<>> THEN 0
    ELSE SumDurations(SubSeq(s, 1, Len(s) - 1)) + get_move_duration(Last(s))

\* State._compute_heuristic: sum of the durations of goals[goals_completed:]
compute_heuristic(goals_completed) ==
    SumDurations(SubSeq(goals, goals_completed + 1, Len(goals)))

goal_penalty(goals_completed) ==
    (Len(goals) - goals_completed)
        * (IF variant = "main" THEN GOAL_WEIGHT_MAIN ELSE GOAL_WEIGHT_PLANNER)

\* a filler penalty that does not wait for the goals to be complete
filler_penalty_any(goals_completed, filler_moves) ==
    IF filler_moves < MIN_FILLER
    THEN (MIN_FILLER - filler_moves) * FILLER_WEIGHT
    ELSE 0

\* the filler term of State.__init__
filler_penalty(goals_completed, filler_moves) ==
    IF goals_completed = Len(goals) /\ filler_moves < MIN_FILLER
    THEN (MIN_FILLER - filler_moves) * FILLER_WEIGHT
    ELSE 0

time_penalty(total_time, goals_completed) ==
    LET estimated_final_time == total_time + compute_heuristic(goals_completed)
    IN  IF estimated_final_time < MIN_TIME THEN MIN_TIME - estimated_final_time
        ELSE IF estimated_final_time > MAX_TIME
             THEN estimated_final_time - MAX_TIME
             ELSE 0

\* State.__init__: the priority of a state, in the form of the variant
Priority(goals_completed, total_time, filler_moves) ==
    IF variant = "main"
    THEN goal_penalty(goals_completed)
           + filler_penalty(goals_completed, filler_moves)
           + time_penalty(total_time, goals_completed)
    ELSE goal_penalty(goals_completed) + total_time
           + compute_heuristic(goals_completed)

State(sequence, goals_completed, total_time, filler_moves) ==
    [sequence |-> sequence, goals_completed |-> goals_completed,
     total_time |-> total_time, filler_moves |-> filler_moves,
     priority |-> Priority(goals_completed, total_time, filler_moves)]

\* Python's None for best_solution
None == [sequence |-> <<"None">>, goals_completed |-> -1, total_time |-> 0,
         filler_moves |-> 0, priority |-> -1]

\* ------------------------------------------------------- helper functions
\* a can_follow that only looks whether next_move has an entry
can_follow_known(prev_move, next_move) == next_move \in DOMAIN predecessors

\* a can_follow that lets a move without an entry follow anything
can_follow_open(prev_move, next_move) ==
    IF next_move \notin DOMAIN predecessors THEN TRUE
    ELSE prev_move \in predecessors[next_move]

\* can_follow(prev_move, next_move)
can_follow(prev_move, next_move) ==
    IF next_move \notin DOMAIN predecessors THEN FALSE
    ELSE prev_move \in predecessors[next_move]

\* sequence[-MAX_CONSECUTIVE_REPEATS:]  (sequence[-0:] is the whole list)
recent_moves(sequence) ==
    IF MAX_CONSECUTIVE_REPEATS = 0 THEN sequence
    ELSE SubSeq(sequence, Len(sequence) - MAX_CONSECUTIVE_REPEATS + 1,
                Len(sequence))

\* a guard that skips a move as soon as it equals the last one
repeat_blocked_last(move, sequence) ==
    sequence # <<>> /\ Last(sequence) = move

\* the repetition guard of the filler loop: TRUE when the move is skipped
repeat_blocked(move, sequence) ==
    /\ Len(sequence) >= MAX_CONSECUTIVE_REPEATS
    /\ \A i \in 1..Len(recent_moves(sequence)) : recent_moves(sequence)[i] = move

\* the goal-advance candidate (the first append of get_valid_next_moves)
next_goal_moves(current_move, goals_completed) ==
    IF goals_completed < Len(goals)
       /\ can_follow(current_move, goals[goals_completed + 1])
    THEN {goals[goals_completed + 1]}
    ELSE {}

\* a filler loop without the test 'current_move in move_preds'
filler_moves_unchecked(current_move, goals_completed, sequence) ==
    LET completed_goals_set == Range(SubSeq(goals, 1, goals_completed))
    IN  {move \in DOMAIN predecessors :
            /\ move \notin completed_goals_set
            /\ ~repeat_blocked(move, sequence)}

\* the filler candidates (the loop over predecessors.items())
filler_moves_of(current_move, goals_completed, sequence) ==
    LET completed_goals_set == Range(SubSeq(goals, 1, goals_completed))
    IN  {move \in DOMAIN predecessors :
            /\ move \notin completed_goals_set
            /\ current_move \in predecessors[move]
            /\ ~repeat_blocked(move, sequence)}

\* get_valid_next_moves: the set behind list(set(valid_moves))
get_valid_next_moves(current_move, goals_completed, sequence) ==
    IF goals_completed >= Len(goals) /\ ~ALLOW_POST_FILL THEN {}
    ELSE next_goal_moves(current_move, goals_completed)
            \cup filler_moves_of(current_move, goals_completed, sequence)

\* an extension that counts any move of the goal list as the next goal
extend_any_goal(state, move) ==
    LET is_next_goal == /\ state.goals_completed < Len(goals)
                        /\ move \in Range(goals)
    IN  State(Append(state.sequence, move),
              IF is_next_goal THEN state.goals_completed + 1
                              ELSE state.goals_completed,
              state.total_time + get_move_duration(move),
              IF variant = "main" /\ ~is_next_goal
              THEN state.filler_moves + 1 ELSE state.filler_moves)

\* an extension that counts every appended move as a filler
extend_count_all(state, move) ==
    LET is_next_goal == /\ state.goals_completed < Len(goals)
                        /\ move = goals[state.goals_completed + 1]
    IN  State(Append(state.sequence, move),
              IF is_next_goal THEN state.goals_completed + 1
                              ELSE state.goals_completed,
              state.total_time + get_move_duration(move),
              IF variant = "main"
              THEN state.filler_moves + 1 ELSE state.filler_moves)

\* the body of the for loop of expand_state: the state after one more move
extend(state, move) ==
    LET is_next_goal == /\ state.goals_completed < Len(goals)
                        /\ move = goals[state.goals_completed + 1]
    IN  State(Append(state.sequence, move),
              IF is_next_goal THEN state.goals_completed + 1
                              ELSE state.goals_completed,
              state.total_time + get_move_duration(move),
              IF variant = "main" /\ ~is_next_goal
              THEN state.filler_moves + 1 ELSE state.filler_moves)

current_move_of(state) ==
    IF state.sequence = <<>> THEN START ELSE Last(state.sequence)

\* a step bound that stops one move early
next_moves_of_early(state) ==
    IF Len(state.sequence) + 1 >= MAX_STEPS THEN {}
    ELSE get_valid_next_moves(current_move_of(state), state.goals_completed,
                              state.sequence)

\* a step bound that lets one move too many through
next_moves_of_late(state) ==
    IF Len(state.sequence) > MAX_STEPS THEN {}
    ELSE get_valid_next_moves(current_move_of(state), state.goals_completed,
                              state.sequence)

\* the candidate set expand_state iterates over ({} at the step bound)
next_moves_of(state) ==
    IF Len(state.sequence) >= MAX_STEPS THEN {}
    ELSE get_valid_next_moves(current_move_of(state), state.goals_completed,
                              state.sequence)

\* an expansion over the candidate list as appended, without set(): the next
\* goal comes twice when the filler loop offers it too
expand_state_dup(state, order) ==
    LET twice == next_goal_moves(current_move_of(state), state.goals_completed)
                    \cap filler_moves_of(current_move_of(state),
                                         state.goals_completed, state.sequence)
        all == IF twice = {} \/ order = <<>> THEN order
               ELSE Append(order, CHOOSE m \in twice : TRUE)
    IN  [i \in 1..Len(all) |-> extend(state, all[i])]

\* expand_state: order is the order in which list(set(...)) hands back the
\* candidates; it depends on the string hashes of the process
expand_state(state, order) ==
    [i \in 1..Len(order) |-> extend(state, order[i])]

\* a solution test that is off by one goal
is_valid_solution_short(state) == state.goals_completed >= Len(goals) - 1

is_valid_solution(state) == state.goals_completed >= Len(goals)

\* ------------------------------------------------------------- the heap
\* heap entries are tuples (priority, counter, state), compared in that order
entry_lt(a, b) ==
    \/ a.priority < b.priority
    \/ a.priority = b.priority /\ a.counter < b.counter

\* a pop that breaks ties towards the entry pushed last
heappop_newest(heap) ==
    CHOOSE e \in heap : \A o \in heap :
        \/ e.priority < o.priority
        \/ e.priority = o.priority /\ e.counter >= o.counter

\* heapq.heappop: the least entry
heappop(heap) == CHOOSE e \in heap : \A o \in heap : o = e \/ entry_lt(e, o)

\* the entries pushed for the new states, counters counter, counter+1, ...
pushed(new_states, first_counter) ==
    {[priority |-> new_states[i].priority, counter |-> first_counter + i - 1,
      state |-> new_states[i]] : i \in 1..Len(new_states)}

\* list.sort(key=priority): stable insertion into a sorted list
RECURSIVE sort_by_priority(_)
insert_sorted(sorted, s) ==
    LET n == Cardinality({i \in 1..Len(sorted) : sorted[i].priority <= s.priority})
    IN  SubSeq(sorted, 1, n) \o <<s>> \o SubSeq(sorted, n + 1, Len(sorted))
sort_by_priority(list) ==
    IF list = <<>> THEN <<>>
    ELSE insert_sorted(sort_by_priority(SubSeq(list, 1, Len(list) - 1)), Last(list))

\* the slice without the test len(all_solutions) > 1
top_k_unguarded(sorted) == SubSeq(sorted, 1, Min(KEEP_TOP_K, Len(sorted)))

\* all_solutions[:KEEP_TOP_K] if len(all_solutions) > 1 else []
top_k(sorted) ==
    IF Len(sorted) > 1 THEN SubSeq(sorted, 1, Min(KEEP_TOP_K, Len(sorted)))
    ELSE <<>>

\* ------------------------------------------------------------ the inputs
NoDurations == [m \in {} |-> 0]

DurationTables ==
    {NoDurations, [m \in {"A", "B"} |-> IF m = "A" THEN 2 ELSE 3],
     [m \in {"A"} |-> 60], [m \in {"A"} |-> 600]}

\* every predecessors table over the moves A and B: a move has no entry, or
\* any list of START, A, B
Catalogs2 ==
    UNION {[D -> SUBSET {START, "A", "B"}] : D \in SUBSET {"A", "B"}}

\* two fillers leading to one goal
Diamond == [m \in Moves |-> IF m = "A" THEN {"B", "C"} ELSE {START}]
\* a cycle A -> B -> C -> A entered at A
Cycle == [m \in Moves |-> IF m = "A" THEN {START, "C"}
                          ELSE IF m = "B" THEN {"A"} ELSE {"B"}]
\* every move may follow START and every move, itself included
Dense == [m \in Moves |-> {START} \cup Moves]

\* two moves, each of which may follow START, itself and the other
Loops == [m \in {"A", "B"} |-> {START, "A", "B"}]

Catalogs3 == {Diamond, Cycle, Dense}

Goals3 == {<<"A">>, <<"A", "B">>, <<"A", "A">>, <<"B", "C", "A">>}

Input(v, g, p, d, me, ms, mr, apf) ==
    [variant |-> v, goals |-> g, predecessors |-> p, durations |-> d,
     MAX_EXPANSIONS |-> me, MAX_STEPS |-> ms,
     MAX_CONSECUTIVE_REPEATS |-> mr, ALLOW_POST_FILL |-> apf]

\* every two-move catalog and goal list, with the largest budgets
InputsCatalogs ==
    {Input(v, g, p, d, MaxExpansions, MaxSteps, mr, TRUE) :
        v \in Variants, g \in SeqsUpTo({"A", "B"}, MaxGoals), p \in Catalogs2,
        d \in DurationTables, mr \in 1..MaxRepeats}

\* every value of the control parameters, on the three-move catalogs
InputsParameters ==
    {Input(v, g, p, NoDurations, me, ms, mr, apf) :
        v \in Variants, g \in Goals3, p \in Catalogs3,
        me \in 0..MaxExpansions, ms \in 0..MaxSteps, mr \in 1..MaxRepeats,
        apf \in BOOLEAN}

\* the two-goal chain A then B with durations 2 and 3 and a budget of 100
\* expansions
InputsChain ==
    {Input(v, <<"A", "B">>,
           [m \in {"A", "B"} |-> IF m = "A" THEN {START} ELSE {"A"}],
           [m \in {"A", "B"} |-> IF m = "A" THEN 2 ELSE 3],
           100, ms, mr, apf) :
        v \in Variants, ms \in 2..MaxSteps, mr \in 1..MaxRepeats,
        apf \in BOOLEAN}

Inputs == InputsCatalogs \cup InputsParameters \cup InputsChain

\* every budget, on catalogs with cycles and self-predecessors
InputsBudgets ==
    {Input(v, g, p, NoDurations, me, ms, mr, TRUE) :
        v \in Variants, g \in {<<"C">>, <<"B", "A">>, <<"A", "A">>},
        p \in {Cycle, Loops},
        me \in 0..MaxExpansions, ms \in 0..MaxSteps, mr \in 1..MaxRepeats}

\* the inputs on which two runs of the program are compared
InputsPair ==
    {Input(v, g, p, NoDurations, MaxExpansions, MaxSteps, MaxRepeats, TRUE) :
        v \in Variants, g \in {<<"A">>, <<"A", "B">>}, p \in {Diamond, Loops}}

\* ------------------------------------------------------------------ Init
InitRuns(inputs, started) ==
    /\ \E in \in inputs :
          /\ variant = in.variant
          /\ goals = in.goals
          /\ predecessors = in.predecessors
          /\ durations = in.durations
          /\ MAX_EXPANSIONS = in.MAX_EXPANSIONS
          /\ MAX_STEPS = in.MAX_STEPS
          /\ MAX_CONSECUTIVE_REPEATS = in.MAX_CONSECUTIVE_REPEATS
          /\ ALLOW_POST_FILL = in.ALLOW_POST_FILL
    /\ runs = started
    /\ pc = [r \in Runs |-> IF r \in started THEN "main" ELSE "idle"]
    /\ pq = [r \in Runs |-> {}]
    /\ counter = [r \in Runs |-> 0]
    /\ visited = [r \in Runs |-> {}]
    /\ expansions = [r \in Runs |-> 0]
    /\ all_solutions = [r \in Runs |-> <<>>]
    /\ best_solution = [r \in Runs |-> None]
    /\ popped = [r \in Runs |-> <<>>]
    /\ alternatives = [r \in Runs |-> <<>>]
    /\ saved = [r \in Runs |-> None]
    /\ song = [r \in Runs |-> FALSE]
    /\ issued = [r \in Runs |-> <<>>]

Init == InitRuns(Inputs, {1})

InitPair == InitRuns(InputsPair, Runs)

\* ------------------------------------------------------------------ main
\* a validation that looks at the first goal only
missing_goals_first ==
    IF goals # <<>> /\ goals[1] \notin DOMAIN predecessors THEN {goals[1]} ELSE {}

\* [g for g in goals if g not in predecessors]
missing_goals ==
    {goals[i] : i \in {j \in 1..Len(goals) : goals[j] \notin DOMAIN predecessors}}

\* main: the validation of the configuration; a goal without an entry in
\* predecessors ends main before the search
Validate(r) ==
    /\ pc[r] = "main"
    /\ pc' = [pc EXCEPT ![r] = IF missing_goals # {} THEN "aborted" ELSE "search"]
    /\ UNCHANGED <<config, search, output>>

\* find_choreography up to the while loop: the initial state is pushed
InitSearch(r) ==
    /\ pc[r] = "search"
    /\ pq' = [pq EXCEPT ![r] = pushed(<<State(<<>>, 0, 0, 0)>>, 0)]
    /\ counter' = [counter EXCEPT ![r] = 1]
    /\ visited' = [visited EXCEPT ![r] = {}]
    /\ expansions' = [expansions EXCEPT ![r] = 0]
    /\ all_solutions' = [all_solutions EXCEPT ![r] = <<>>]
    /\ best_solution' = [best_solution EXCEPT ![r] = None]
    /\ pc' = [pc EXCEPT ![r] = "loop"]
    /\ UNCHANGED <<config, popped, output>>

\* a loop test that lets one expansion too many through
loop_condition_le(r) == pq[r] # {} /\ expansions[r] <= MAX_EXPANSIONS

\* while pq and expansions < MAX_EXPANSIONS
loop_condition(r) == pq[r] # {} /\ expansions[r] < MAX_EXPANSIONS

\* a key that forgets the sequence
state_key_coarse(state) == <<<<>>, state.goals_completed>>

\* state_key = (tuple(current_state.sequence), current_state.goals_completed)
state_key(state) == <<state.sequence, state.goals_completed>>

\* an update that keeps the last terminal state found
better_solution_last(best, current_state) == current_state

\* an update that also takes a terminal state of equal priority
better_solution_le(best, current_state) ==
    IF best = None \/ current_state.priority <= best.priority
    THEN current_state ELSE best

\* best_solution after a terminal state was recorded
better_solution(best, current_state) ==
    IF best = None \/ current_state.priority < best.priority
    THEN current_state ELSE best

\* a loop body that goes on to the expansion after recording a solution
continue_missing(state) == FALSE

\* the 'continue' that closes the solution branch: the iteration ends there
\* exactly when the popped state is a solution
continue_after_solution(state) == is_valid_solution(state)

\* one iteration of the while loop of find_choreography
LoopIteration(r) ==
    /\ pc[r] = "loop"
    /\ loop_condition(r)
    /\ LET entry == heappop(pq[r])
           current_state == entry.state
           rest == pq[r] \ {entry}
       IN  /\ popped' = [popped EXCEPT ![r] = Append(@, current_state)]
           /\ IF state_key(current_state) \in visited[r]
              THEN /\ pq' = [pq EXCEPT ![r] = rest]
                   /\ UNCHANGED <<counter, visited, expansions, all_solutions,
                                  best_solution>>
              ELSE /\ visited' = [visited EXCEPT ![r] = @ \cup {state_key(current_state)}]
                   /\ IF is_valid_solution(current_state)
                      THEN /\ all_solutions' =
                                [all_solutions EXCEPT ![r] = Append(@, current_state)]
                           /\ best_solution' =
                                [best_solution EXCEPT ![r] = better_solution(@, current_state)]
                      ELSE UNCHANGED <<all_solutions, best_solution>>
                   /\ IF continue_after_solution(current_state)
                      THEN /\ pq' = [pq EXCEPT ![r] = rest]
                           /\ UNCHANGED <<counter, expansions>>
                      ELSE /\ \E order \in Perms(next_moves_of(current_state)) :
                                /\ pq' = [pq EXCEPT ![r] = rest \cup
                                            pushed(expand_state(current_state, order),
                                                   counter[r])]
                                /\ counter' = [counter EXCEPT ![r] = @ + Len(order)]
                           /\ expansions' = [expansions EXCEPT ![r] = @ + 1]
    /\ UNCHANGED <<config, pc, output>>

\* the end of find_choreography: the solutions are sorted and returned
ExitLoop(r) ==
    /\ pc[r] = "loop"
    /\ ~loop_condition(r)
    /\ all_solutions' = [all_solutions EXCEPT ![r] = sort_by_priority(@)]
    /\ alternatives' = [alternatives EXCEPT ![r] = top_k(sort_by_priority(all_solutions[r]))]
    /\ pc' = [pc EXCEPT ![r] = "returned"]
    /\ UNCHANGED <<config, pq, counter, visited, expansions, best_solution,
                   popped, saved, song, issued>>

\* main: best_solution is None, the hints are printed and main returns
NoSolution(r) ==
    /\ pc[r] = "returned"
    /\ best_solution[r] = None
    /\ pc' = [pc EXCEPT ![r] = "no_solution"]
    /\ UNCHANGED <<config, search, output>>

\* main: print_solution, save_solution and the list of alternatives
SaveSolution(r) ==
    /\ pc[r] = "returned"
    /\ best_solution[r] # None
    /\ saved' = [saved EXCEPT ![r] = best_solution[r]]
    /\ pc' = [pc EXCEPT ![r] = IF variant = "main" THEN "execute" ELSE "done"]
    /\ UNCHANGED <<config, search, alternatives, song, issued>>

\* main.py: rf.play_song starts the player and returns
PlaySong(r) ==
    /\ pc[r] = "execute"
    /\ song' = [song EXCEPT ![r] = TRUE]
    /\ pc' = [pc EXCEPT ![r] = "do_moves"]
    /\ UNCHANGED <<config, search, alternatives, saved, issued>>

\* a do_moves that walks the sequence from its end
DoMove_reversed(r) ==
    /\ pc[r] = "do_moves"
    /\ Len(issued[r]) < Len(best_solution[r].sequence)
    /\ issued' = [issued EXCEPT ![r] =
                    Append(@, best_solution[r].sequence[
                                 Len(best_solution[r].sequence) - Len(@)])]
    /\ UNCHANGED <<config, pc, search, alternatives, saved, song>>

\* do_moves: one subprocess.run per move of the sequence, in order
DoMove(r) ==
    /\ pc[r] = "do_moves"
    /\ Len(issued[r]) < Len(best_solution[r].sequence)
    /\ issued' = [issued EXCEPT ![r] =
                    Append(@, best_solution[r].sequence[Len(@) + 1])]
    /\ UNCHANGED <<config, pc, search, alternatives, saved, song>>

\* do_moves returns after the last move
Finish(r) ==
    /\ pc[r] = "do_moves"
    /\ Len(issued[r]) = Len(best_solution[r].sequence)
    /\ pc' = [pc EXCEPT ![r] = "done"]
    /\ UNCHANGED <<config, search, output>>

Next ==
    \E r \in runs :
        \/ Validate(r)
        \/ InitSearch(r)
        \/ LoopIteration(r)
        \/ ExitLoop(r)
        \/ NoSolution(r)
        \/ SaveSolution(r)
        \/ PlaySong(r)
        \/ DoMove(r)
        \/ Finish(r)

Spec == Init /\ [][Next]_vars

\* a run of the program is never suspended for ever
FairSpec == InitRuns(InputsBudgets, {1}) /\ [][Next]_vars /\ WF_vars(Next)

\* two runs of the program on the same input
SpecPair == InitPair /\ [][Next]_vars

\* ------------------------------------------------- the report's verdict
\* main.py check_order: the scan 'for e in solution.sequence: if e ==
\* goals[c]: c += 1'; goals[c] with c = len(goals) raises IndexError
RECURSIVE check_order_scan(_, _, _)
check_order_scan(sequence, i, c) ==
    IF i > Len(sequence)
    THEN (IF c = Len(goals) THEN "True" ELSE "False")
    ELSE IF c >= Len(goals) THEN "IndexError"
    ELSE IF sequence[i] = goals[c + 1]
         THEN check_order_scan(sequence, i + 1, c + 1)
         ELSE check_order_scan(sequence, i + 1, c)

check_order(solution) == check_order_scan(solution.sequence, 1, 0)

\* solution.sequence.index(goal), for a goal the sequence holds
sequence_index(sequence, goal) ==
    CHOOSE i \in 1..Len(sequence) :
        sequence[i] = goal /\ \A j \in 1..(i - 1) : sequence[j] # goal

\* choreography_planner.py print_solution: every goal is found and
\* goal_positions == sorted(goal_positions)
print_solution_order(solution) ==
    /\ \A i \in 1..Len(goals) : goals[i] \in Range(solution.sequence)
    /\ \A i, j \in 1..Len(goals) :
          i < j => sequence_index(solution.sequence, goals[i])
                     <= sequence_index(solution.sequence, goals[j])

\* =============================================================== claims
\* every state the search of run r has created so far
Created(r) ==
    {e.state : e \in pq[r]} \cup Range(popped[r]) \cup Range(all_solutions[r])
        \cup Range(alternatives[r]) \cup ({best_solution[r]} \ {None})

\* the solutions run r hands back: the best one and the alternatives
Produced(r) == Range(alternatives[r]) \cup ({best_solution[r]} \ {None})

\* find_choreography has returned in run r
Returned(r) ==
    pc[r] \in {"returned", "no_solution", "execute", "do_moves", "done"}

\* the terminal states popped so far in run r
PoppedTerminal(r) ==
    {s \in Range(popped[r]) : s.goals_completed = Len(goals)}

\* a is a (not necessarily contiguous) subsequence of b
IsSubsequence(a, b) ==
    \E f \in [1..Len(a) -> 1..Len(b)] :
        /\ \A i \in 1..Len(a) : a[i] = b[f[i]]
        /\ \A i, j \in 1..Len(a) : i < j => f[i] < f[j]

\* the length of the longest prefix of the goal list that is a subsequence
LongestGoalPrefix(sequence) ==
    CHOOSE k \in 0..Len(goals) :
        /\ IsSubsequence(SubSeq(goals, 1, k), sequence)
        /\ \A n \in (k + 1)..Len(goals) :
              ~IsSubsequence(SubSeq(goals, 1, n), sequence)

\* the configured duration of a move, or the default of the variant
DurationOf(move) ==
    IF move \in DOMAIN durations THEN durations[move]
    ELSE IF variant = "main" THEN DEFAULT_DURATION_MAIN
         ELSE DEFAULT_DURATION_PLANNER

RECURSIVE TotalDuration(_)
TotalDuration(sequence) ==
    IF sequence = <<>> THEN 0
    ELSE DurationOf(sequence[1]) + TotalDuration(Tail(sequence))

PrecedenceValid(sequence) ==
    /\ sequence # <<>> =>
          /\ sequence[1] \in DOMAIN predecessors
          /\ START \in predecessors[sequence[1]]
    /\ \A i \in 1..(Len(sequence) - 1) :
          /\ sequence[i + 1] \in DOMAIN predecessors
          /\ sequence[i] \in predecessors[sequence[i + 1]]

\* the longest run of one move in a sequence is at most n
RunsAtMost(sequence, n) ==
    \A i \in 1..(Len(sequence) - n) :
        \E j \in (i + 1)..(i + n) : sequence[j] # sequence[i]

\* C1: in the best solution and in every alternative each move is preceded
\* by one of its predecessors, and the first move has START as a predecessor
C1_PrecedenceValidity ==
    \A r \in runs : \A s \in Produced(r) : PrecedenceValid(s.sequence)

C1_Witness ==
    /\ pc[1] = "returned"
    /\ best_solution[1] # None
    /\ Len(best_solution[1].sequence) >= 3
    /\ alternatives[1] # <<>>

\* C2: every returned solution has goals_completed = len(goals) and contains
\* the goal list as an order-preserving subsequence
C2_GoalsInOrder ==
    \A r \in runs : \A s \in Produced(r) :
        /\ s.goals_completed = Len(goals)
        /\ IsSubsequence(goals, s.sequence)

C2_Witness ==
    /\ pc[1] = "returned"
    /\ Len(goals) = 2
    /\ \E s \in Produced(1) :
          /\ Len(s.sequence) = 3
          /\ s.sequence[2] # goals[1]
          /\ s.sequence[2] # goals[2]

\* C3: no state on the frontier and no solution has a move more than
\* MAX_CONSECUTIVE_REPEATS times in a row
C3_NoLongRepeat ==
    \A r \in runs : \A s \in Created(r) :
        RunsAtMost(s.sequence, MAX_CONSECUTIVE_REPEATS)

\* C4: total_time of every state is the sum of the durations of its moves,
\* with DEFAULT_DURATION for a move without a duration entry; the search
\* goes on to its end with such moves
C4_TotalTimeIsSum ==
    \A r \in runs : \A s \in Created(r) : s.total_time = TotalDuration(s.sequence)

C4_Witness ==
    /\ pc[1] = "returned"
    /\ \E s \in Produced(1) :
          /\ Len(s.sequence) >= 2
          /\ \E i, j \in 1..Len(s.sequence) :
                /\ s.sequence[i] \in DOMAIN durations
                /\ s.sequence[j] \notin DOMAIN durations

\* C5: the while loop of find_choreography always ends, and expansions never
\* exceeds MAX_EXPANSIONS
C5_Terminates ==
    /\ (pc[1] = "loop") ~> (pc[1] = "returned" /\ ~loop_condition(1))
    /\ [](expansions[1] <= MAX_EXPANSIONS)

\* the budget ended a search on a cyclic catalog that still had a frontier
C5_Witness ==
    /\ pc[1] = "returned"
    /\ predecessors \in {Cycle, Loops}
    /\ MAX_EXPANSIONS > 0
    /\ expansions[1] = MAX_EXPANSIONS
    /\ pq[1] # {}

\* C6: on return best_solution is None exactly when no terminal state was
\* popped, and otherwise a popped terminal state of least priority
C6_BestIsLeast ==
    \A r \in runs : Returned(r) =>
        /\ best_solution[r] = None <=> PoppedTerminal(r) = {}
        /\ best_solution[r] # None =>
              /\ best_solution[r] \in PoppedTerminal(r)
              /\ \A t \in PoppedTerminal(r) :
                    best_solution[r].priority <= t.priority

\* a later terminal state replaced the first one as the best
C6_Witness ==
    /\ pc[1] = "returned"
    /\ Len(all_solutions[1]) >= 2
    /\ \E i \in 1..Len(popped[1]) :
          /\ popped[1][i] \in PoppedTerminal(1)
          /\ \A j \in 1..(i - 1) : popped[1][j] \notin PoppedTerminal(1)
          /\ popped[1][i].priority > best_solution[1].priority

\* the run ended without a solution and main returned normally
C6_WitnessNone ==
    /\ pc[1] = "no_solution"
    /\ popped[1] # <<>>

\* C7: the alternatives are at most KEEP_TOP_K popped terminal states in
\* non-decreasing priority order, none left out is strictly better than one
\* listed, and the list is empty with fewer than two terminal states
C7_Alternatives ==
    \A r \in runs : Returned(r) =>
        LET alts == alternatives[r]
        IN  /\ Len(alts) <= KEEP_TOP_K
            /\ Range(alts) \subseteq PoppedTerminal(r)
            /\ \A i, j \in 1..Len(alts) : i < j => alts[i].priority <= alts[j].priority
            /\ \A t \in PoppedTerminal(r) \ Range(alts) :
                  \A i \in 1..Len(alts) : ~(t.priority < alts[i].priority)
            /\ Cardinality(PoppedTerminal(r)) <= 1 => alts = <<>>

\* more terminal states than KEEP_TOP_K were found, not in priority order
C7_Witness ==
    /\ pc[1] = "returned"
    /\ Cardinality(PoppedTerminal(1)) > KEEP_TOP_K
    /\ Len(alternatives[1]) = KEEP_TOP_K
    /\ \E i, j \in 1..Len(popped[1]) :
          /\ i < j
          /\ {popped[1][i], popped[1][j]} \subseteq PoppedTerminal(1)
          /\ popped[1][j].priority < popped[1][i].priority

\* C8: two runs on the same catalog, goals and constants return the same
\* best sequence and the same ordered list of alternatives
C8_Deterministic ==
    (Returned(1) /\ Returned(2)) =>
        /\ best_solution[1].sequence = best_solution[2].sequence
        /\ Len(alternatives[1]) = Len(alternatives[2])
        /\ \A i \in 1..Len(alternatives[1]) :
              alternatives[1][i].sequence = alternatives[2][i].sequence

\* C9: with a goal that has no entry in predecessors main ends before the
\* search: nothing is pushed, popped, saved or sent to the robot
C9_FailFast ==
    \A r \in runs :
        (\E i \in 1..Len(goals) : goals[i] \notin DOMAIN predecessors) =>
            /\ pc[r] \in {"main", "aborted"}
            /\ pq[r] = {} /\ counter[r] = 0 /\ popped[r] = <<>>
            /\ saved[r] = None /\ issued[r] = <<>> /\ ~song[r]

C9_Witness ==
    /\ pc[1] = "aborted"
    /\ Len(goals) = 2
    /\ goals[1] \in DOMAIN predecessors
    /\ START \in predecessors[goals[1]]
    /\ goals[2] \notin DOMAIN predecessors

\* C10: goals_completed of every state is the length of the longest prefix
\* of the goal list that is a subsequence of its sequence, and every state
\* but the initial one extends a popped state by one move, with
\* goals_completed one higher exactly when that move is the next goal
C10_GoalsCompleted ==
    \A r \in runs : \A s \in Created(r) :
        /\ s.goals_completed = LongestGoalPrefix(s.sequence)
        /\ s.sequence # <<>> =>
              \E p \in Range(popped[r]) :
                  /\ p.sequence = SubSeq(s.sequence, 1, Len(s.sequence) - 1)
                  /\ s.goals_completed =
                        IF /\ p.goals_completed < Len(goals)
                           /\ Last(s.sequence) = goals[p.goals_completed + 1]
                        THEN p.goals_completed + 1
                        ELSE p.goals_completed

\* a later goal was appended as a filler before it became the next goal
C10_Witness ==
    /\ Len(goals) = 2
    /\ goals[1] # goals[2]
    /\ \E s \in Created(1) :
          /\ s.sequence = <<goals[2], goals[1], goals[2]>>
          /\ s.goals_completed = 2

\* goals still to complete in a state
Remaining(s) == Len(goals) - s.goals_completed

\* the filler term of the three-tier priority of a state
FillerTerm(s) ==
    IF s.goals_completed = Len(goals) /\ s.filler_moves < MIN_FILLER
    THEN (MIN_FILLER - s.filler_moves) * FILLER_WEIGHT ELSE 0

\* C11: of two states the search creates, the one with fewer remaining goals
\* has the strictly smaller priority; and in the three-tier form, with equal
\* remaining goals, the one with the smaller filler penalty never has the
\* larger priority
C11_TierSeparation ==
    \A r \in runs : \A s, t \in Created(r) :
        /\ Remaining(s) < Remaining(t) => s.priority < t.priority
        /\ (variant = "main" /\ Remaining(s) = Remaining(t)
              /\ FillerTerm(s) < FillerTerm(t)) => s.priority <= t.priority

\* C12: every pop hands back a frontier entry of least priority and, among
\* those, the one pushed first; the insertion counter only grows and is never
\* used twice, so (priority, counter) alone orders the frontier
C12_FrontierOrder ==
    /\ [](\A r \in Runs : \A a, b \in pq[r] :
            /\ a.counter = b.counter => a = b
            /\ a.counter < counter[r])
    /\ [][\A r \in Runs :
            /\ counter'[r] >= counter[r]
            /\ \A e \in pq'[r] \ pq[r] : e.counter >= counter[r] /\ e.counter < counter'[r]
            /\ Len(popped'[r]) > Len(popped[r]) =>
                  \E e \in pq[r] \ pq'[r] :
                      /\ e.state = Last(popped'[r])
                      /\ \A o \in pq[r] :
                            \/ e.priority < o.priority
                            \/ e.priority = o.priority /\ e.counter <= o.counter]_vars

\* a state was popped while another one of the same priority and length,
\* pushed later, stays on the frontier
C12_Witness ==
    /\ pc[1] = "loop"
    /\ popped[1] # <<>>
    /\ \E e \in pq[1] :
          /\ e.priority = Last(popped[1]).priority
          /\ Len(e.state.sequence) = Len(Last(popped[1]).sequence)

\* the input of the two-goal scenario
ChainScenario ==
    /\ goals = <<"A", "B">>
    /\ DOMAIN predecessors = {"A", "B"}
    /\ predecessors["A"] = {START} /\ predecessors["B"] = {"A"}
    /\ DOMAIN durations = {"A", "B"}
    /\ durations["A"] = 2 /\ durations["B"] = 3
    /\ MAX_EXPANSIONS = 100
    /\ MAX_STEPS >= 2

\* C13: with goals [A, B], A after START, B after A, durations 2 and 3 and
\* MAX_EXPANSIONS = 100 the search returns the sequence [A, B] with
\* total_time 5 and goals_completed 2, in both priority forms
C13_ChainScenario ==
    \A r \in runs : (ChainScenario /\ Returned(r)) =>
        /\ best_solution[r].sequence = <<"A", "B">>
        /\ best_solution[r].total_time = 5
        /\ best_solution[r].goals_completed = 2

C13_Witness ==
    /\ ChainScenario
    /\ MAX_STEPS = 2
    /\ variant = "planner"
    /\ pc[1] = "done"
    /\ saved[1].sequence = <<"A", "B">>

\* the same scenario in the three-tier form, after the moves were executed
C13_WitnessMain ==
    /\ ChainScenario
    /\ variant = "main"
    /\ pc[1] = "done"
    /\ issued[1] = <<"A", "B">>

\* some goal has an entry in predecessors whose list is empty
EmptyPredecessorsGoal ==
    \E i \in 1..Len(goals) :
        goals[i] \in DOMAIN predecessors /\ predecessors[goals[i]] = {}

\* C14: when a goal has an empty predecessor list no state with all goals
\* completed is ever created, the search returns None and no alternatives,
\* and main ends through its 'no solution' branch
C14_EmptyPredecessors ==
    \A r \in runs : EmptyPredecessorsGoal =>
        /\ \A s \in Created(r) : s.goals_completed < Len(goals)
        /\ best_solution[r] = None
        /\ all_solutions[r] = <<>> /\ alternatives[r] = <<>>
        /\ pc[r] \in {"main", "aborted", "search", "loop", "returned", "no_solution"}

\* such a search expanded states and ended without a solution
C14_Witness ==
    /\ EmptyPredecessorsGoal
    /\ Len(goals) = 2
    /\ pc[1] = "no_solution"
    /\ \E s \in Range(popped[1]) : s.goals_completed = 1
    /\ expansions[1] >= 2

\* X may follow itself and is a predecessor of no other catalog move
OnlySelfSuccessor(X) ==
    /\ X \in DOMAIN predecessors
    /\ X \in predecessors[X]
    /\ \A m \in DOMAIN predecessors \ {X} : X \notin predecessors[m]

\* C15: with MAX_CONSECUTIVE_REPEATS = 1 and a move X whose only legal
\* successor is X, the candidates of a state that ends in X do not hold X,
\* so no state continues after X and no solution with a move after X is
\* returned
C15_SelfSuccessorExcluded ==
    \A r \in runs : \A X \in Moves :
        (MAX_CONSECUTIVE_REPEATS = 1 /\ OnlySelfSuccessor(X)) =>
            /\ \A s \in Created(r) :
                  (s.sequence # <<>> /\ Last(s.sequence) = X) =>
                      X \notin get_valid_next_moves(X, s.goals_completed, s.sequence)
            /\ \A s \in Created(r) : \A i \in 1..Len(s.sequence) :
                  s.sequence[i] = X => i = Len(s.sequence)
            /\ (Returned(r) /\ Len(goals) >= 2 /\ goals[1] = X) =>
                  best_solution[r] = None

\* the moves without an entry in the predecessors table
UnknownMoves == Moves \ DOMAIN predecessors

\* the outcome of can_follow for a transition that is not allowed
NotAllowed == FALSE

\* C16: during a search, the lookup of a target without an entry has an
\* outcome other than the one of a transition that is not allowed
C16_UnknownMoveSignalled ==
    \A r \in runs : popped[r] # <<>> =>
        \A m \in UnknownMoves : \A p \in Range(Last(popped[r]).sequence) \cup {START} :
            can_follow(p, m) # NotAllowed

\* C16 as amended: the lookup of a target without an entry answers as for a
\* transition that is not allowed; a goal without an entry ends main before
\* the search, and no sequence of the search holds a move without an entry
C16_UnknownMoveNotAllowed ==
    /\ \A m \in UnknownMoves : \A p \in Moves \cup {START} :
          can_follow(p, m) = NotAllowed
    /\ \A r \in runs :
          /\ (\E i \in 1..Len(goals) : goals[i] \in UnknownMoves) =>
                pc[r] \in {"main", "aborted"}
          /\ \A s \in Created(r) : Range(s.sequence) \cap UnknownMoves = {}

\* a search over a catalog without an entry for some move returned a solution
C16_Witness ==
    /\ UnknownMoves \cap {"A", "B"} # {}
    /\ Returned(1)
    /\ best_solution[1] # None
    /\ Len(best_solution[1].sequence) >= 2

\* the candidates as the specification words them
SpecGuarded(m, sequence) ==
    /\ Len(sequence) >= MAX_CONSECUTIVE_REPEATS
    /\ \A i \in (Len(sequence) - MAX_CONSECUTIVE_REPEATS + 1)..Len(sequence) :
          sequence[i] = m

SpecCandidates(current_move, goals_completed, sequence) ==
    IF goals_completed >= Len(goals) /\ ~ALLOW_POST_FILL THEN {}
    ELSE {g \in {goals[i] : i \in {goals_completed + 1} \cap 1..Len(goals)} :
             g \in DOMAIN predecessors /\ current_move \in predecessors[g]}
         \cup
         {m \in DOMAIN predecessors :
             /\ \A i \in 1..goals_completed : goals[i] # m
             /\ current_move \in predecessors[m]
             /\ ~SpecGuarded(m, sequence)}

\* C17: for every current move and every state of the search the candidate
\* generator returns exactly the specified set, and an expansion below the
\* step bound pushes one child per candidate, no candidate twice
C17_CandidateGeneration ==
    /\ [](\A r \in runs : \A s \in Created(r) : \A cur \in Moves \cup {START} :
            get_valid_next_moves(cur, s.goals_completed, s.sequence)
                = SpecCandidates(cur, s.goals_completed, s.sequence))
    /\ [][\A r \in runs :
            (Len(popped'[r]) > Len(popped[r])
               /\ Last(popped'[r]).goals_completed < Len(goals)
               /\ Len(Last(popped'[r]).sequence) < MAX_STEPS) =>
                LET s == Last(popped'[r])
                    cands == SpecCandidates(current_move_of(s), s.goals_completed,
                                            s.sequence)
                    new == pq'[r] \ pq[r]
                IN  /\ {e.state.sequence : e \in new}
                          = {Append(s.sequence, m) : m \in cands}
                    /\ Cardinality(new) = Cardinality(cands)]_vars

\* the guard kept a move out after two occurrences in a row, and an earlier
\* expansion had more than one candidate
C17_Witness ==
    /\ MAX_CONSECUTIVE_REPEATS = 2
    /\ \E s \in Range(popped[1]) : \E m \in DOMAIN predecessors :
          /\ s.sequence = <<m, m>>
          /\ s.goals_completed < Len(goals)
          /\ Len(s.sequence) < MAX_STEPS
          /\ m \in predecessors[m]
          /\ m \notin get_valid_next_moves(m, s.goals_completed, s.sequence)
    /\ \E s \in Range(popped[1]) :
          Cardinality(next_moves_of(s)) >= 2
    /\ pc[1] = "returned"

\* the key of a state: its sequence and the number of goals it completed
Key(s) == <<s.sequence, s.goals_completed>>

\* C18: visited holds exactly the keys of the popped states; a key enters it
\* only in the step that pops a state with that key; a popped state whose key
\* is already there changes nothing but the frontier; no key is popped as a
\* new state twice, and no key is recorded as a solution twice
C18_VisitedDiscipline ==
    /\ [](\A r \in runs :
            /\ visited[r] = {Key(s) : s \in Range(popped[r])}
            /\ \A i, j \in 1..Len(all_solutions[r]) :
                  Key(all_solutions[r][i]) = Key(all_solutions[r][j]) => i = j
            /\ \A i, j \in 1..Len(popped[r]) :
                  Key(popped[r][i]) = Key(popped[r][j]) => i = j)
    /\ [][\A r \in runs :
            /\ Len(popped'[r]) = Len(popped[r]) => visited'[r] = visited[r]
            /\ Len(popped'[r]) > Len(popped[r]) =>
                  /\ visited'[r] = visited[r] \cup {Key(Last(popped'[r]))}
                  /\ Key(Last(popped'[r])) \in visited[r] =>
                        /\ all_solutions'[r] = all_solutions[r]
                        /\ best_solution'[r] = best_solution[r]
                        /\ expansions'[r] = expansions[r]
                        /\ counter'[r] = counter[r]
                        /\ pq'[r] \subseteq pq[r]]_vars

\* a finished search that popped several states, a solution among them
C18_Witness ==
    /\ pc[1] = "returned"
    /\ Cardinality(visited[1]) >= 4
    /\ Len(all_solutions[1]) >= 2
    /\ \E k1, k2 \in visited[1] : k1[2] = k2[2] /\ k1[1] # k2[1]

C20_StepBound ==
    /\ [](\A r \in runs :
            /\ \A s \in Created(r) : Len(s.sequence) <= MAX_STEPS
            /\ \A s \in Produced(r) : Len(s.sequence) <= MAX_STEPS)
    /\ [][\A r \in runs :
            (Len(popped'[r]) > Len(popped[r])
               /\ Last(popped'[r]).goals_completed < Len(goals)
               /\ Len(Last(popped'[r]).sequence) >= MAX_STEPS) =>
                /\ pq'[r] \subseteq pq[r]
                /\ counter'[r] = counter[r]]_vars

\* a state at the step bound that had goals left and candidates was popped
C20_Witness ==
    /\ MAX_STEPS >= 2
    /\ \E s \in Range(popped[1]) :
          /\ s.goals_completed < Len(goals)
          /\ Len(s.sequence) = MAX_STEPS
          /\ get_valid_next_moves(Last(s.sequence), s.goals_completed,
                                  s.sequence) # {}
    /\ pc[1] = "returned"

\* C21: expansions rises, by one, only in the step that pops a new state
\* with goals left and fewer than MAX_STEPS moves; the pop of a visited
\* state, of a terminal state and of a state at the step bound leave it alone
C21_ExpansionAccounting ==
    [][\A r \in runs :
         IF /\ Len(popped'[r]) > Len(popped[r])
            /\ Key(Last(popped'[r])) \notin visited[r]
            /\ Last(popped'[r]).goals_completed < Len(goals)
            /\ Len(Last(popped'[r]).sequence) < MAX_STEPS
         THEN expansions'[r] = expansions[r] + 1
         ELSE expansions'[r] = expansions[r]]_vars

\* C22: in main.py every extension raises exactly one of goals_completed and
\* filler_moves by one (filler_moves exactly when the appended move is not
\* the next goal), and goals_completed + filler_moves is the length of the
\* sequence in every state
C22_FillerAccounting ==
    /\ [](\A r \in runs : \A s \in Created(r) :
            variant = "main" =>
                s.goals_completed + s.filler_moves = Len(s.sequence))
    /\ [][\A r \in runs :
            (variant = "main" /\ Len(popped'[r]) > Len(popped[r])) =>
                LET s == Last(popped'[r])
                IN  \A e \in pq'[r] \ pq[r] :
                        LET c == e.state
                            next_goal == /\ s.goals_completed < Len(goals)
                                         /\ Last(c.sequence) = goals[s.goals_completed + 1]
                        IN  /\ c.sequence = Append(s.sequence, Last(c.sequence))
                            /\ IF next_goal
                               THEN /\ c.goals_completed = s.goals_completed + 1
                                    /\ c.filler_moves = s.filler_moves
                               ELSE /\ c.goals_completed = s.goals_completed
                                    /\ c.filler_moves = s.filler_moves + 1]_vars

\* main.py returned a solution that holds a goal advance and fillers, one of
\* the fillers being a move of the goal list
C22_Witness ==
    /\ variant = "main"
    /\ pc[1] = "returned"
    /\ best_solution[1] # None
    /\ best_solution[1].goals_completed >= 1
    /\ best_solution[1].filler_moves >= 1
    /\ \E s \in Created(1) :
          /\ s.filler_moves >= 1
          /\ s.goals_completed = 0
          /\ \E i \in 1..Len(s.sequence) : s.sequence[i] \in Range(goals)

\* the terms of the three-tier priority as the specification words them
SpecHeuristic(goals_completed) ==
    TotalDuration(SubSeq(goals, goals_completed + 1, Len(goals)))

SpecFillerPenalty(goals_completed, filler_moves) ==
    IF goals_completed = Len(goals) /\ filler_moves < 5
    THEN (5 - filler_moves) * 100 ELSE 0

SpecTimePenalty(total_time, goals_completed) ==
    LET projected == total_time + SpecHeuristic(goals_completed)
        below == MIN_TIME - projected
        above == projected - MAX_TIME
    IN  IF MIN_TIME <= projected /\ projected <= MAX_TIME THEN 0
        ELSE IF below > 0 THEN below ELSE above

\* the total times the terms are compared on: those of the states of the
\* search and the edges of the time window
TimesOf(r) ==
    {s.total_time : s \in Created(r)}
        \cup {0, MIN_TIME - 1, MIN_TIME, MAX_TIME, MAX_TIME + 1}

\* C23: in main.py, for every goals_completed, filler_moves and total_time,
\* the filler penalty is (5 - filler_moves) * 100 when all goals are complete
\* and filler_moves < 5 and zero otherwise, the time penalty is zero inside
\* the window and the distance to the nearer bound outside, the heuristic is
\* the sum of the durations of the goals left, and the priority is the sum
\* of the three penalties and not negative
C23_ThreeTierPriority ==
    \A r \in runs : variant = "main" =>
        /\ \A gc \in 0..Len(goals) :
              /\ compute_heuristic(gc) = SpecHeuristic(gc)
              /\ \A f \in 0..(MIN_FILLER + 1) :
                    /\ filler_penalty(gc, f) = SpecFillerPenalty(gc, f)
                    /\ (filler_penalty(gc, f) # 0) <=> (gc = Len(goals) /\ f < 5)
              /\ \A tt \in TimesOf(r) :
                    /\ time_penalty(tt, gc) = SpecTimePenalty(tt, gc)
                    /\ (time_penalty(tt, gc) = 0) <=>
                          (MIN_TIME <= tt + SpecHeuristic(gc)
                             /\ tt + SpecHeuristic(gc) <= MAX_TIME)
        /\ \A s \in Created(r) :
              /\ s.priority = (Len(goals) - s.goals_completed) * 10000
                                + SpecFillerPenalty(s.goals_completed, s.filler_moves)
                                + SpecTimePenalty(s.total_time, s.goals_completed)
              /\ s.priority >= 0

\* main.py created states with a projected time below, inside and above the
\* window, a terminal state with a filler penalty among them
C23_Witness ==
    /\ variant = "main"
    /\ pc[1] = "returned"
    /\ \E s \in Created(1) :
          s.total_time + SpecHeuristic(s.goals_completed) < MIN_TIME
    /\ \E s \in Created(1) :
          /\ s.total_time > 0
          /\ s.total_time + SpecHeuristic(s.goals_completed) >= MIN_TIME
          /\ s.total_time + SpecHeuristic(s.goals_completed) <= MAX_TIME
    /\ \E s \in Created(1) :
          s.total_time + SpecHeuristic(s.goals_completed) > MAX_TIME
    /\ \E s \in Created(1) :
          /\ s.goals_completed = Len(goals)
          /\ s.filler_moves >= 1
          /\ SpecFillerPenalty(s.goals_completed, s.filler_moves) > 0

\* a is a prefix of b
IsPrefix(a, b) == Len(a) <= Len(b) /\ a = SubSeq(b, 1, Len(a))

\* C24: in main.py a move is issued only after the search returned a best
\* solution, that solution was saved and the song was started; the moves
\* issued are those of the best solution, in order, one per step, all of
\* them once do_moves has returned; after a failed validation or a search
\* without solution nothing is saved and no move is issued
C24_ExecutionOrdering ==
    /\ [](\A r \in runs :
            /\ issued[r] # <<>> =>
                  /\ variant = "main"
                  /\ best_solution[r] # None
                  /\ saved[r] = best_solution[r]
                  /\ song[r]
                  /\ pc[r] \in {"do_moves", "done"}
            /\ song[r] => saved[r] # None /\ saved[r] = best_solution[r]
            /\ best_solution[r] # None => IsPrefix(issued[r], best_solution[r].sequence)
            /\ (variant = "main" /\ pc[r] = "done") =>
                  issued[r] = best_solution[r].sequence
            /\ pc[r] \in {"aborted", "no_solution"} =>
                  issued[r] = <<>> /\ saved[r] = None /\ ~song[r])
    /\ [][\A r \in runs :
            /\ issued'[r] # issued[r] =>
                  /\ Len(issued'[r]) = Len(issued[r]) + 1
                  /\ SubSeq(issued'[r], 1, Len(issued[r])) = issued[r]
                  /\ song[r] /\ saved[r] # None
                  /\ best_solution'[r] = best_solution[r]
            /\ pc[r] \in {"aborted", "no_solution"} => pc'[r] = pc[r]]_vars

\* main.py ran a solution of several different moves to its end
C24_Witness ==
    /\ variant = "main"
    /\ pc[1] = "done"
    /\ Len(issued[1]) >= 3
    /\ issued[1][1] # issued[1][2]
    /\ issued[1] = saved[1].sequence

\* a run of main.py ended without a solution after a search
C24_WitnessNone ==
    /\ variant = "main"
    /\ pc[1] = "no_solution"
    /\ expansions[1] >= 2
    /\ issued[1] = <<>>

\* C25: the frontier holds at most one entry per sequence, goals_completed
\* is determined by the sequence, and no state is popped whose key is
\* already in visited
C25_VisitedNeverFires ==
    /\ [](\A r \in runs :
            /\ \A a, b \in pq[r] : a.state.sequence = b.state.sequence => a = b
            /\ \A s, u \in Created(r) :
                  s.sequence = u.sequence => s.goals_completed = u.goals_completed
            /\ \A e \in pq[r] : Key(e.state) \notin visited[r])
    /\ [][\A r \in runs : Len(popped'[r]) > Len(popped[r]) =>
            /\ Key(Last(popped'[r])) \notin visited[r]
            /\ \A e \in pq'[r] \ pq[r] :
                  \A o \in pq[r] : o.state.sequence # e.state.sequence]_vars

\* an expansion whose next goal was also a filler candidate, followed by the
\* pop of its children
C25_Witness ==
    /\ pc[1] = "returned"
    /\ \E i \in 1..Len(popped[1]) :
          LET s == popped[1][i]
          IN  /\ s.goals_completed < Len(goals)
              /\ Len(s.sequence) < MAX_STEPS
              /\ next_goal_moves(current_move_of(s), s.goals_completed)
                    \cap filler_moves_of(current_move_of(s), s.goals_completed,
                                         s.sequence) # {}
              /\ Cardinality(next_moves_of(s)) >= 2
              /\ i + 2 <= Len(popped[1])

\* C26: when find_choreography returns a non-empty list of alternatives, its
\* first entry is the state returned as best_solution, which is the first
\* popped among the terminal states of least priority
C26_BestHeadsAlternatives ==
    \A r \in runs : (Returned(r) /\ alternatives[r] # <<>>) =>
        /\ best_solution[r] # None
        /\ alternatives[r][1] = best_solution[r]
        /\ best_solution[r] \in Range(alternatives[r])
        /\ \E i \in 1..Len(popped[r]) :
              /\ popped[r][i] = best_solution[r]
              /\ popped[r][i].goals_completed = Len(goals)
              /\ \A j \in 1..Len(popped[r]) :
                    popped[r][j].goals_completed = Len(goals) =>
                        \/ popped[r][i].priority < popped[r][j].priority
                        \/ popped[r][i].priority = popped[r][j].priority /\ i <= j

\* two terminal states of the same, least priority were found
C26_Witness ==
    /\ pc[1] = "returned"
    /\ Len(alternatives[1]) >= 2
    /\ alternatives[1][1].priority = alternatives[1][2].priority
    /\ alternatives[1][1] # alternatives[1][2]
    /\ alternatives[1][1] = best_solution[1]

\* C27: for every solution the search hands back the report declares the
\* goal order respected: print_solution's test in choreography_planner.py
\* succeeds, and check_order in main.py returns True and raises no IndexError
C27_OrderVerdict ==
    \A r \in runs : Returned(r) =>
        \A s \in Produced(r) :
            IF variant = "planner" THEN print_solution_order(s)
            ELSE check_order(s) = "True"

====
